---- MODULE Spec2Model ----
(***************************************************************************)
(* A model of the RESP key-value server: the wire codec (src/src/resp.rs), *)
(* the store entry (src/src/db.rs) and the per-connection session loop     *)
(* with its command interpreter (src/src/main.rs).                         *)
(*                                                                         *)
(* Text is a sequence of characters and the wire is a sequence of bytes;   *)
(* both are sequences of one-token strings.  An ASCII character is one     *)
(* byte (the same token); the character EAcute is the two bytes C3 A9.     *)
(***************************************************************************)
EXTENDS Integers, Sequences, FiniteSets, TLC

CR == "\r"
LF == "\n"
CRLF == <<CR, LF>>

\* A two-byte character (U+00E9) and its UTF-8 bytes.
EAcute == "U+00E9"
ByteC3 == "C3"
ByteA9 == "A9"

---------------------------------------------------------------------------
(* Text helpers: the standard-library conversions the code calls.          *)

DigitChars == <<"0", "1", "2", "3", "4", "5", "6", "7", "8", "9">>

IsDigit(c) == \E i \in 1..10 : DigitChars[i] = c

DigitVal(c) == (CHOOSE i \in 1..10 : DigitChars[i] = c) - 1

RECURSIVE DigitsVal(_, _)
\* The value of a run of decimal digits, most significant first.
DigitsVal(s, acc) ==
    IF s = <<>> THEN acc ELSE DigitsVal(Tail(s), acc * 10 + DigitVal(Head(s)))

AllDigits(s) == s # <<>> /\ \A i \in 1..Len(s) : IsDigit(s[i])

\* str::parse::<i64>: an optional sign, then one or more digits.  (Every text
\* of this model is far shorter than the 19 digits where i64 overflows.)
ParseI64(s) ==
    IF s # <<>> /\ Head(s) = "-" /\ AllDigits(Tail(s))
        THEN [ok |-> TRUE, n |-> 0 - DigitsVal(Tail(s), 0)]
    ELSE IF s # <<>> /\ Head(s) = "+" /\ AllDigits(Tail(s))
        THEN [ok |-> TRUE, n |-> DigitsVal(Tail(s), 0)]
    ELSE IF AllDigits(s)
        THEN [ok |-> TRUE, n |-> DigitsVal(s, 0)]
    ELSE [ok |-> FALSE, n |-> 0]

\* A u64, and the product of two before it is reduced to 64 bits, is held as
\* its decimal digits, most significant first, without leading zeros (zero is
\* the single digit 0): the values go beyond 32-bit integers.
U64Zero == <<0>>
U64Max == <<1, 8, 4, 4, 6, 7, 4, 4, 0, 7, 3, 7, 0, 9, 5, 5, 1, 6, 1, 5>>
TwoPow64 == <<1, 8, 4, 4, 6, 7, 4, 4, 0, 7, 3, 7, 0, 9, 5, 5, 1, 6, 1, 6>>

RECURSIVE StripZeros(_)
StripZeros(d) ==
    IF Len(d) > 1 /\ Head(d) = 0 THEN StripZeros(Tail(d)) ELSE d

\* The number a run of decimal digit characters denotes.
WideOfText(s) == StripZeros([k \in 1..Len(s) |-> DigitVal(s[k])])

RECURSIVE WideOfNat(_)
\* The number a (small) natural is.
WideOfNat(n) ==
    IF n < 10 THEN <<n>> ELSE WideOfNat(n \div 10) \o <<n % 10>>

\* a < b
WideLess(a, b) ==
    \/ Len(a) < Len(b)
    \/ /\ Len(a) = Len(b)
       /\ \E k \in 1..Len(a) :
            a[k] < b[k] /\ \A j \in 1..(k - 1) : a[j] = b[j]

\* a <= b
WideLeq(a, b) == a = b \/ WideLess(a, b)

RECURSIVE WideSubAt(_, _, _, _, _)
\* Digits k down to 1 of a - b (b padded to the length of a), with a borrow.
WideSubAt(a, b, k, borrow, acc) ==
    IF k = 0 THEN acc
    ELSE LET d == a[k] - b[k] - borrow
         IN  WideSubAt(a, b, k - 1, IF d < 0 THEN 1 ELSE 0,
                       <<IF d < 0 THEN d + 10 ELSE d>> \o acc)

\* a - b, for b <= a
WideSub(a, b) ==
    LET pad == [k \in 1..(Len(a) - Len(b)) |-> 0]
    IN  StripZeros(WideSubAt(a, pad \o b, Len(a), 0, <<>>))

\* a * 1000
WideTimes1000(a) == IF a = U64Zero THEN a ELSE a \o <<0, 0, 0>>

RECURSIVE WideMod(_, _)
\* a reduced below m by subtracting m
WideMod(a, m) == IF WideLess(a, m) THEN a ELSE WideMod(WideSub(a, m), m)

\* The low 64 bits of a product a < 1000 * 2^64: what a wrapping u64
\* multiplication leaves.
WrapU64(a) ==
    WideMod(WideMod(WideMod(a, TwoPow64 \o <<0, 0>>), TwoPow64 \o <<0>>),
            TwoPow64)

\* str::parse::<u64>: an optional plus sign, then one or more digits; an
\* error when the number does not fit 64 bits.
ParseU64(s) ==
    LET digits == IF s # <<>> /\ Head(s) = "+" THEN Tail(s) ELSE s
    IN  IF AllDigits(digits) /\ WideLeq(WideOfText(digits), U64Max)
            THEN [ok |-> TRUE, n |-> WideOfText(digits)]
            ELSE [ok |-> FALSE, n |-> U64Zero]

RECURSIVE NatToString(_)
NatToString(n) ==
    IF n < 10 THEN <<DigitChars[n + 1]>>
    ELSE NatToString(n \div 10) \o <<DigitChars[(n % 10) + 1]>>

\* i64::to_string / usize::to_string: decimal, a minus sign when negative.
IntToString(n) == IF n < 0 THEN <<"-">> \o NatToString(0 - n) ELSE NatToString(n)

UpperChars == <<"A", "C", "E", "G", "H", "I", "N", "O", "P", "S", "T", "X">>
LowerChars == <<"a", "c", "e", "g", "h", "i", "n", "o", "p", "s", "t", "x">>

LowerChar(c) ==
    IF \E i \in 1..Len(UpperChars) : UpperChars[i] = c
        THEN LowerChars[CHOOSE i \in 1..Len(UpperChars) : UpperChars[i] = c]
        ELSE c

\* str::to_lowercase
ToLowercase(s) == [i \in 1..Len(s) |-> LowerChar(s[i])]

RECURSIVE AsBytes(_)
\* str::as_bytes / bytes of a formatted String: the UTF-8 encoding.
AsBytes(s) ==
    IF s = <<>> THEN <<>>
    ELSE (IF Head(s) = EAcute THEN <<ByteC3, ByteA9>> ELSE <<Head(s)>>)
         \o AsBytes(Tail(s))

RECURSIVE FromUtf8(_)
\* String::from_utf8: fails on a lead byte without its continuation byte and
\* on a continuation byte without its lead byte.
FromUtf8(b) ==
    IF b = <<>> THEN [ok |-> TRUE, s |-> <<>>]
    ELSE IF Head(b) = ByteC3
        THEN IF Len(b) >= 2 /\ b[2] = ByteA9
                THEN LET r == FromUtf8(Tail(Tail(b)))
                     IN  [ok |-> r.ok, s |-> <<EAcute>> \o r.s]
                ELSE [ok |-> FALSE, s |-> <<>>]
    ELSE IF Head(b) = ByteA9 THEN [ok |-> FALSE, s |-> <<>>]
    ELSE LET r == FromUtf8(Tail(b))
         IN  [ok |-> r.ok, s |-> <<Head(b)>> \o r.s]

---------------------------------------------------------------------------
(* resp.rs: Value and the codec.                                           *)

SimpleString(s) == [t |-> "SimpleString", s |-> s, a |-> <<>>]
BulkString(s)   == [t |-> "BulkString",   s |-> s, a |-> <<>>]
Array(a)        == [t |-> "Array",        s |-> <<>>, a |-> a]

\* The outcomes of a fallible call: Ok(value, len), Err(..) or a panic.
Ok(v, len) == [out |-> "ok", v |-> v, len |-> len]
Err   == [out |-> "err",   v |-> Array(<<>>), len |-> 0]
Panic == [out |-> "panic", v |-> Array(<<>>), len |-> 0]

\* Value::serialise; the array arm panics.
serialise(v) ==
    IF v.t = "SimpleString"
        THEN [out |-> "ok", bytes |-> <<"+">> \o AsBytes(v.s) \o CRLF]
    ELSE IF v.t = "BulkString"
        THEN [out |-> "ok",
              bytes |-> <<"$">> \o AsBytes(IntToString(Len(v.s))) \o CRLF
                        \o AsBytes(v.s) \o CRLF]
    ELSE [out |-> "panic", bytes |-> <<>>]

\* buffer[from..] of a slice (from counted from 0, from <= len).
SliceFrom(buffer, from) == SubSeq(buffer, from + 1, Len(buffer))

\* A faulty read_until_crlf: the length returned stops at the line feed's
\* index, one byte short.
read_until_crlf_short(buffer) ==
    LET hits == {i \in 1..(Len(buffer) - 1) :
                    buffer[i] = CR /\ buffer[i + 1] = LF}
    IN  IF hits = {} THEN [some |-> FALSE, line |-> <<>>, len |-> 0]
        ELSE LET j == CHOOSE i \in hits : \A k \in hits : i <= k
             IN  [some |-> TRUE, line |-> SubSeq(buffer, 1, j - 1), len |-> j]

\* read_until_crlf: the first i (0-based, from 1) with buffer[i-1..=i] = CRLF
\* gives (buffer[0..i-1], i+1).
read_until_crlf(buffer) ==
    LET hits == {i \in 1..(Len(buffer) - 1) :
                    buffer[i] = CR /\ buffer[i + 1] = LF}
    IN  IF hits = {} THEN [some |-> FALSE, line |-> <<>>, len |-> 0]
        ELSE LET j == CHOOSE i \in hits : \A k \in hits : i <= k
             IN  [some |-> TRUE, line |-> SubSeq(buffer, 1, j - 1), len |-> j + 1]

\* parse_int: from_utf8 then parse::<i64>.
parse_int(buffer) ==
    LET u == FromUtf8(buffer)
    IN  IF u.ok THEN ParseI64(u.s) ELSE [ok |-> FALSE, n |-> 0]

\* parse_simple_string: the line is read from the start of the buffer, type
\* marker included.
parse_simple_string(buf) ==
    LET r == read_until_crlf(buf)
    IN  IF r.some
            THEN LET u == FromUtf8(r.line)
                 IN  IF u.ok THEN Ok(SimpleString(u.s), r.len) ELSE Err
            ELSE Err

\* parse_bulk_string: buf[bytes_consumed..end_of_bulk_str] panics when the
\* range is not inside the buffer (a negative length cast to usize either
\* overflows the addition or wraps to such a range).
parse_bulk_string(buf) ==
    LET r == read_until_crlf(SliceFrom(buf, 1))
    IN  IF ~r.some THEN Err
        ELSE LET n == parse_int(r.line)
                 bytes_consumed == r.len + 1
                 end_of_bulk_str == bytes_consumed + n.n
                 total_parsed == end_of_bulk_str + 2
             IN  IF ~n.ok THEN Err
                 ELSE IF n.n < 0 \/ end_of_bulk_str > Len(buf) THEN Panic
                 ELSE LET u == FromUtf8(SubSeq(buf, bytes_consumed + 1,
                                               end_of_bulk_str))
                      IN  IF u.ok THEN Ok(BulkString(u.s), total_parsed)
                          ELSE Err

RECURSIVE parse_message(_)
RECURSIVE parse_array_items(_, _, _, _)

\* The loop of parse_array: `left` more items from buf[bytes_consumed..].
parse_array_items(buf, bytes_consumed, left, items) ==
    IF left <= 0 THEN Ok(Array(items), bytes_consumed)
    ELSE IF bytes_consumed > Len(buf) THEN Panic
    ELSE LET r == parse_message(SliceFrom(buf, bytes_consumed))
         IN  IF r.out = "ok"
                 THEN parse_array_items(buf, bytes_consumed + r.len, left - 1,
                                        Append(items, r.v))
                 ELSE r

\* parse_array: a negative count runs the loop zero times.
parse_array(buf) ==
    LET r == read_until_crlf(SliceFrom(buf, 1))
    IN  IF ~r.some THEN Err
        ELSE LET n == parse_int(r.line)
             IN  IF ~n.ok THEN Err
                 ELSE parse_array_items(buf, r.len + 1, n.n, <<>>)

\* parse_message: buf[0] panics on an empty buffer.
parse_message(buf) ==
    IF buf = <<>> THEN Panic
    ELSE IF buf[1] = "+" THEN parse_simple_string(buf)
    ELSE IF buf[1] = "$" THEN parse_bulk_string(buf)
    ELSE IF buf[1] = "*" THEN parse_array(buf)
    ELSE Err

---------------------------------------------------------------------------
(* db.rs: DBVal, DBData and the map behind Db.                             *)

DBValInt(n)    == [t |-> "Int",    n |-> n, s |-> <<>>]
DBValString(s) == [t |-> "String", n |-> 0, s |-> s]

None     == [some |-> FALSE, ms |-> U64Zero]
Some(ms) == [some |-> TRUE,  ms |-> ms]

\* DBData::new
DBData(data, created_at, exp) ==
    [data |-> data, created_at |-> created_at, exp |-> exp]

\* HashMap::new: the map with no key.
EmptyMap == <<>>

\* A faulty insert: the map is rebuilt from the new pair alone.
insert_replacing(map, key, val) == [k \in {key} |-> val]

\* HashMap::insert
insert(map, key, val) ==
    [k \in (DOMAIN map) \cup {key} |-> IF k = key THEN val ELSE map[k]]

\* HashMap::remove
remove(map, key) == [k \in (DOMAIN map) \ {key} |-> map[k]]

---------------------------------------------------------------------------
(* main.rs: the pure helpers of the command interpreter.                   *)

CLEAR_TOKEN_ITERATIONS == 1000

\* The texts the interpreter compares with or replies.  A message's wording
\* after the error indicator is kept as one token, and so is the text {e} of
\* the error it reports: that of a failed stream read, or that of the decoder.
ErrorIndicator == <<"(", "e", "r", "r", "o", "r", ")">>
TextPing == <<"p", "i", "n", "g">>
TextEcho == <<"e", "c", "h", "o">>
TextSet  == <<"s", "e", "t">>
TextGet  == <<"g", "e", "t">>
TextEx   == <<"e", "x">>
TextPx   == <<"p", "x">>
TextPONG == <<"P", "O", "N", "G">>
TextOK   == <<"O", "K">>
TextECHO == <<"E", "C", "H", "O">>
TextMinusOne == <<"-", "1">>
TextNoArgument == <<"You did not provide an argument to ECHO back">>
TextEmptyInput == <<"Received non-bulk-string input or empty input">>
\* A faulty message: the error indicator is left out.
InvalidCommandBare(c) == <<" Invalid command: ">> \o c

IoError     == "{e: read_buf failed}"
DecodeError == "{e: the decoder's error}"
ErrReadToken(e) == ErrorIndicator \o <<" Failed to read token: ", e>>
ErrExtract      == ErrorIndicator \o <<" Error extracting commands: {e}">>
ErrSetArgs     == ErrorIndicator \o <<" Invalid arguments for: SET">>
ErrGetArgs     == ErrorIndicator \o <<" Invalid arguments for GET">>
ErrInvalidCommand(c) == ErrorIndicator \o <<" Invalid command: ">> \o c

\* determine_type: Ok(DBVal) for a bulk string, Err for any other value.
determine_type(value) ==
    IF value.t = "BulkString"
        THEN LET p == ParseI64(value.s)
             IN  [ok |-> TRUE,
                  val |-> IF p.ok THEN DBValInt(p.n) ELSE DBValString(value.s)]
        ELSE [ok |-> FALSE, val |-> DBValString(<<>>)]

\* unpack_bulk_str
unpack_bulk_str(value) ==
    IF value.t = "BulkString" THEN [ok |-> TRUE, s |-> value.s]
    ELSE [ok |-> FALSE, s |-> <<>>]

\* extract_command: (first element unpacked, the elements after it).
extract_command(value) ==
    IF value.t = "Array"
        THEN LET first == IF value.a = <<>> THEN BulkString(TextEmptyInput)
                          ELSE Head(value.a)
                 u == unpack_bulk_str(first)
             IN  [ok |-> u.ok, command |-> u.s,
                  args |-> IF value.a = <<>> THEN <<>> ELSE Tail(value.a)]
        ELSE [ok |-> FALSE, command |-> <<>>, args |-> <<>>]

\* The value the loop goes on with when handler.read() fails with error e.
ReadErrorValue(e) ==
    Array(<<BulkString(TextECHO), BulkString(ErrReadToken(e))>>)

\* extract_command(v).unwrap_or_else(..): the (command, args) of the cycle.
CommandOf(value) ==
    LET e == extract_command(value)
    IN  IF e.ok THEN [command |-> e.command, args |-> e.args]
        ELSE [command |-> TextECHO, args |-> <<BulkString(ErrExtract)>>]

\* A faulty is_expired: an entry without a ttl counts as one with a ttl of 0.
is_expired_without_ttl(val, t) ==
    WideLeq(val.exp.ms, WideOfNat(t - val.created_at))

\* A faulty is_expired: at the deadline itself the entry is not yet expired.
is_expired_strict(val, t) ==
    val.exp.some /\ WideLess(val.exp.ms, WideOfNat(t - val.created_at))

\* is_expired, and the same test in the get arm, at instant t:
\* created_at.elapsed() >= Duration::from_millis(ms), false without a ttl.
is_expired(val, t) ==
    val.exp.some /\ WideLeq(val.exp.ms, WideOfNat(t - val.created_at))

\* exp_time.parse::<u64>().unwrap_or_default()
exp_time_of(text) == IF ParseU64(text).ok THEN ParseU64(text).n ELSE U64Zero

\* `exp_time * 1000` does not fit a u64: the multiplication panics in a build
\* with overflow checks and wraps in a build without.
expire_time_overflows(exp_type, exp_time) ==
    /\ ToLowercase(exp_type) = TextEx
    /\ WideLess(U64Max, WideTimes1000(exp_time_of(exp_time)))

\* The millisecond ttl of a 4-argument SET (where the multiplication has not
\* panicked).
expire_time(exp_type, exp_time) ==
    LET n == exp_time_of(exp_time)
        ty == ToLowercase(exp_type)
    IN  IF ty = TextEx THEN WrapU64(WideTimes1000(n))
        ELSE IF ty = TextPx THEN n
        ELSE U64Zero

\* The text a live entry is rendered as in the get arm.
Render(data) == IF data.t = "Int" THEN IntToString(data.n) ELSE data.s

---------------------------------------------------------------------------
(* The state: the shared map behind its RwLock, the clock, and each        *)
(* session task's locals and position in handle_connection.                *)

VARIABLES
    db,         \* the HashMap behind the RwLock
    lock,       \* the session holding the write guard, 0 when free
    now,        \* Instant::now(), in milliseconds
    pc,         \* each session's position in handle_connection
    i,          \* each session's iteration counter
    command,    \* each session's command name of the cycle
    args,       \* each session's argument list of the cycle
    response,   \* each session's reply value of the cycle
    todo,       \* the keys the running retain pass has not visited yet
    iters,      \* loop iterations started, all sessions together (bounds the run)
    committed,  \* observer: per key, the value text and the entry the last
                \* completed operation on the key left, and the ttl of the
                \* entry it replaced
    sent,       \* observer: the complete frames each client has sent
    replies,    \* observer: the reply values written to each client
    buf,        \* a buffer handed to the decoder on its own
    result,     \* what the decoder returned for buf
    swept,      \* observer: each session's latest sweep pass, the instant
                \* it got access and the keys the Store then held
    encoded     \* the value whose encoding buf is, when buf was encoded

vars == <<db, lock, now, pc, i, command, args, response, todo, iters,
          committed, sent, replies, buf, result, swept, encoded>>

\* The decoder has not been applied to buf.
NotDecoded == [out |-> "none", v |-> Array(<<>>), len |-> 0]

\* buf is not the encoding of a value.
NotEncoded == [t |-> "none", s |-> <<>>, a |-> <<>>]

Sessions == {1, 2}

\* Bounds of the model.
MaxTime == 2
MaxIters == 3
MaxSessionIters == 2

NoValue == Array(<<>>)

\* The map as the completed operations left it.
CommittedMap == [k \in DOMAIN committed |-> committed[k].entry]

\* A session that has left handle_connection: the loop broke or the task
\* panicked.
Ended(s) == pc[s] \in {"closed", "panicked"}

\* main: an empty map and no connection accepted yet; or session 1 is a
\* connection that has already been served CLEAR_TOKEN_ITERATIONS - 2 PINGs
\* (which leave the map empty) and is back at the top of its loop.
Init ==
    /\ db = EmptyMap
    /\ lock = 0
    /\ now = 0
    /\ pc \in {[s \in Sessions |-> "idle"],
              [s \in Sessions |-> IF s = 1 THEN "top" ELSE "idle"]}
    /\ i = [s \in Sessions |->
              IF pc[s] = "idle" THEN 0 ELSE CLEAR_TOKEN_ITERATIONS - 2]
    /\ command = [s \in Sessions |-> <<>>]
    /\ args = [s \in Sessions |-> <<>>]
    /\ response = [s \in Sessions |-> NoValue]
    /\ todo = [s \in Sessions |-> {}]
    /\ iters = 0
    /\ committed = EmptyMap
    /\ sent = [s \in Sessions |-> <<>>]
    /\ replies = [s \in Sessions |-> <<>>]
    /\ buf = <<>>
    /\ result = NotDecoded
    /\ swept = [s \in Sessions |-> {}]
    /\ encoded = NotEncoded

\* The clock advances.
Tick ==
    /\ now < MaxTime
    /\ now' = now + 1
    /\ UNCHANGED <<db, lock, pc, i, command, args, response, todo, iters,
                   committed, sent, replies,
                   buf, result, swept, encoded>>

\* main: accept a connection and spawn handle_connection, which starts with
\* i = 0.
Accept(s) ==
    /\ pc[s] = "idle"
    /\ pc' = [pc EXCEPT ![s] = "top"]
    /\ i' = [i EXCEPT ![s] = 0]
    /\ UNCHANGED <<db, lock, now, command, args, response, todo, iters,
                   committed, sent, replies,
                   buf, result, swept, encoded>>

\* A faulty write(): access is granted whoever holds a guard.
CanAcquireAlways(l) == TRUE

\* RwLock::write().await resolves only when no guard is out.
CanAcquire(l) == l = 0

\* A faulty drop: the guard is leaked, access stays held.
GuardLeaked(l, s) == l

\* Dropping the write guard (at the end of its block, or while unwinding).
GuardDropped(l, s) == IF l = s THEN 0 ELSE l

\* Top of the loop: i += 1, and the test against CLEAR_TOKEN_ITERATIONS.
LoopTop(s, env) ==
    /\ pc[s] = "top"
    /\ iters < env.iters
    /\ iters' = iters + 1
    /\ i' = [i EXCEPT ![s] = i[s] + 1]
    /\ pc' = [pc EXCEPT ![s] =
                IF i[s] + 1 >= CLEAR_TOKEN_ITERATIONS THEN "sweep_wait"
                ELSE "read"]
    /\ UNCHANGED <<db, lock, now, command, args, response, todo,
                   committed, sent, replies,
                   buf, result, swept, encoded>>

\* The sweep: db.write().await
SweepAcquire(s, env) ==
    /\ pc[s] = "sweep_wait"
    /\ CanAcquire(lock)
    /\ lock' = s
    /\ todo' = [todo EXCEPT ![s] = DOMAIN db]
    /\ pc' = [pc EXCEPT ![s] = "sweep"]
    /\ swept' = IF env.log
                    THEN [swept EXCEPT ![s] = {[began |-> now,
                                               keys |-> DOMAIN db]}]
                    ELSE swept
    /\ UNCHANGED <<db, now, i, command, args, response, iters, committed,
                   sent, replies,
                   buf, result, encoded>>

\* The sweep: retain visits one entry (in the map's own order) and judges it
\* against the clock as it reads it then.
SweepRetain(s) ==
    /\ pc[s] = "sweep"
    /\ \E k \in todo[s] :
        /\ db' = IF is_expired(db[k], now) THEN remove(db, k) ELSE db
        /\ todo' = [todo EXCEPT ![s] = todo[s] \ {k}]
    /\ UNCHANGED <<lock, now, pc, i, command, args, response, iters,
                   committed, sent, replies,
                   buf, result, swept, encoded>>

\* A faulty end of the sweep: the counter is not reset.
SweepReleaseKeepsCounter(s) ==
    /\ pc[s] = "sweep"
    /\ todo[s] = {}
    /\ lock' = GuardDropped(lock, s)
    /\ committed' = [k \in (DOMAIN committed) \cap (DOMAIN db) |-> committed[k]]
    /\ pc' = [pc EXCEPT ![s] = "read"]
    /\ UNCHANGED <<db, now, i, command, args, response, todo, iters, sent,
                   replies, buf, result, swept, encoded>>

\* The sweep: retain is over; i = 0 and the guard is dropped with the block.
SweepRelease(s) ==
    /\ pc[s] = "sweep"
    /\ todo[s] = {}
    /\ i' = [i EXCEPT ![s] = 0]
    /\ lock' = GuardDropped(lock, s)
    /\ committed' = [k \in (DOMAIN committed) \cap (DOMAIN db) |-> committed[k]]
    /\ pc' = [pc EXCEPT ![s] = "read"]
    /\ UNCHANGED <<db, now, command, args, response, todo, iters, sent,
                   replies,
                   buf, result, swept, encoded>>

RECURSIVE Concat(_)
\* The bytes of several frames, one after the other.
Concat(fs) == IF fs = <<>> THEN <<>> ELSE Head(fs) \o Concat(Tail(fs))

\* handler.read() returns Ok(None) on a read of zero bytes: the loop breaks.
ReadClosed(s) ==
    /\ pc[s] = "read"
    /\ pc' = [pc EXCEPT ![s] = "closed"]
    /\ UNCHANGED <<db, lock, now, i, command, args, response, todo, iters,
                   committed, sent, replies,
                   buf, result, swept, encoded>>

\* handler.read() returns Err when read_buf fails: unwrap_or_else turns the
\* error into an ECHO of its text and the cycle goes on.
ReadError(s) ==
    /\ pc[s] = "read"
    /\ command' = [command EXCEPT ![s] =
                     CommandOf(ReadErrorValue(IoError)).command]
    /\ args' = [args EXCEPT ![s] = CommandOf(ReadErrorValue(IoError)).args]
    /\ pc' = [pc EXCEPT ![s] = "exec"]
    /\ UNCHANGED <<db, lock, now, i, response, todo, iters, committed, sent,
                   replies,
                   buf, result, swept, encoded>>

\* handler.read() gets the frames fs in one read: buf.split() hands the whole
\* buffer to parse_message, whose consumed length is not used, then
\* extract_command runs on the value (or on the ECHO made of a parse error).
\* A panic of the decoder ends the task.
ReadData(s, env) ==
    /\ pc[s] = "read"
    /\ \E fs \in env.inputs :
        LET r == parse_message(Concat(fs))
            value == IF r.out = "ok" THEN r.v
                     ELSE ReadErrorValue(DecodeError)
            c == CommandOf(value)
        IN  /\ sent' = IF env.log THEN [sent EXCEPT ![s] = sent[s] \o fs] ELSE sent
            /\ IF r.out = "panic"
                   THEN /\ pc' = [pc EXCEPT ![s] = "panicked"]
                        /\ UNCHANGED <<command, args>>
                   ELSE /\ pc' = [pc EXCEPT ![s] = "exec"]
                        /\ command' = [command EXCEPT ![s] = c.command]
                        /\ args' = [args EXCEPT ![s] = c.args]
    /\ UNCHANGED <<db, lock, now, i, response, todo, iters, committed,
                   replies,
                   buf, result, swept, encoded>>

\* The arms that reply at once: the response is computed and the cycle moves
\* on to the write.
Reply(s, v) ==
    /\ response' = [response EXCEPT ![s] = v]
    /\ pc' = [pc EXCEPT ![s] = "write"]
    /\ UNCHANGED <<db, lock, now, i, command, args, todo, iters, committed,
                   sent, replies,
                   buf, result, swept, encoded>>

\* "ping"
ExecPing(s) ==
    /\ pc[s] = "exec"
    /\ ToLowercase(command[s]) = TextPing
    /\ Reply(s, SimpleString(TextPONG))

\* The reply of the "echo" arm: the first argument, cloned, or the placeholder.
EchoReply(a) == IF a = <<>> THEN BulkString(TextNoArgument) ELSE Head(a)

\* "echo"
ExecEcho(s) ==
    /\ pc[s] = "exec"
    /\ ToLowercase(command[s]) = TextEcho
    /\ Reply(s, EchoReply(args[s]))

\* The `if let` patterns of the set arm match.
SetMatches(a) ==
    \/ Len(a) = 2 /\ a[1].t = "BulkString"
    \/ Len(a) = 4 /\ a[1].t = "BulkString" /\ a[3].t = "BulkString"
                  /\ a[4].t = "BulkString"

\* The ttl a matching SET stores: None with 2 arguments.
SetExp(a) ==
    IF Len(a) = 2 THEN None ELSE Some(expire_time(a[3].s, a[4].s))

\* The multiplication of a matching 4-argument SET overflows.
SetOverflows(a) == Len(a) = 4 /\ expire_time_overflows(a[3].s, a[4].s)

\* The builds: overflow checks on (the multiplication panics) or off (it
\* wraps).
OverflowChecks == {TRUE, FALSE}

\* "set", the pattern matches: with 4 arguments expire_time is computed,
\* and a panic of its multiplication ends the task; then db.write().await
SetAcquire(s) ==
    /\ pc[s] = "exec"
    /\ ToLowercase(command[s]) = TextSet
    /\ SetMatches(args[s])
    /\ \E checked \in OverflowChecks :
        IF checked /\ SetOverflows(args[s])
            THEN /\ pc' = [pc EXCEPT ![s] = "panicked"]
                 /\ command' = [command EXCEPT ![s] = <<>>]
                 /\ args' = [args EXCEPT ![s] = <<>>]
                 /\ UNCHANGED lock
            ELSE /\ CanAcquire(lock)
                 /\ lock' = s
                 /\ pc' = [pc EXCEPT ![s] = "set_insert"]
                 /\ UNCHANGED <<command, args>>
    /\ UNCHANGED <<db, now, i, response, todo, iters,
                   committed, sent, replies,
                   buf, result, swept, encoded>>

\* "set", 2 or 4 arguments that do not match the pattern: no write, "OK".
SetSkip(s) ==
    /\ pc[s] = "exec"
    /\ ToLowercase(command[s]) = TextSet
    /\ Len(args[s]) \in {2, 4}
    /\ ~SetMatches(args[s])
    /\ Reply(s, SimpleString(TextOK))

\* "set", any other argument count.
SetInvalid(s) ==
    /\ pc[s] = "exec"
    /\ ToLowercase(command[s]) = TextSet
    /\ Len(args[s]) \notin {2, 4}
    /\ Reply(s, BulkString(ErrSetArgs))

\* The entry insert() has half moved into the map: data and created_at are
\* the new ones, exp is still what the slot held (None in a fresh slot).
HalfWritten(map, key, data, t) ==
    DBData(data, t, IF key \in DOMAIN map THEN map[key].exp ELSE None)

\* "set", under the guard: determine_type(value).unwrap() panics on a value
\* that is no bulk string, and unwinding drops the guard; otherwise
\* Instant::now() is read and insert() starts moving the new DBData into the
\* map.  The move is not one memory write: it is modelled as two, data and
\* created_at here, exp in SetStored.
SetInsert(s) ==
    /\ pc[s] = "set_insert"
    /\ LET d == determine_type(args[s][2])
           key == args[s][1].s
       IN  IF d.ok
               THEN /\ db' = insert(db, key, HalfWritten(db, key, d.val, now))
                    /\ pc' = [pc EXCEPT ![s] = "set_stored"]
                    /\ UNCHANGED <<lock, command, args>>
               ELSE /\ pc' = [pc EXCEPT ![s] = "panicked"]
                    /\ lock' = GuardDropped(lock, s)
                    /\ command' = [command EXCEPT ![s] = <<>>]
                    /\ args' = [args EXCEPT ![s] = <<>>]
                    /\ UNCHANGED db
    /\ UNCHANGED <<now, i, response, todo, iters, committed, sent, replies,
                   buf, result, swept, encoded>>

\* "set", under the guard: insert() completes (exp written), the guard is
\* dropped at the end of the block and the arm yields "OK".
SetStored(s) ==
    /\ pc[s] = "set_stored"
    /\ LET key == args[s][1].s
       IN  /\ db' = [db EXCEPT ![key].exp = SetExp(args[s])]
           /\ committed' =
                [k \in (DOMAIN committed) \cup {key} |->
                    IF k = key
                        THEN [value |-> args[s][2].s,
                              entry |-> [db[key] EXCEPT
                                            !.exp = SetExp(args[s])],
                              replaced |-> db[key].exp]
                        ELSE committed[k]]
    /\ lock' = GuardDropped(lock, s)
    /\ response' = [response EXCEPT ![s] = SimpleString(TextOK)]
    /\ pc' = [pc EXCEPT ![s] = "write"]
    /\ UNCHANGED <<now, i, command, args, todo, iters, sent, replies,
                   buf, result, swept, encoded>>

\* The get arm on the locked map at instant t: the map it leaves and the
\* reply.
GetResult(map, key, t) ==
    IF key \notin DOMAIN map
        THEN [db |-> map, response |-> BulkString(TextMinusOne)]
    ELSE IF is_expired(map[key], t)
        THEN [db |-> remove(map, key), response |-> BulkString(TextMinusOne)]
    ELSE [db |-> map, response |-> BulkString(Render(map[key].data))]

\* "get", one bulk-string argument: db.write().await
GetAcquire(s) ==
    /\ pc[s] = "exec"
    /\ ToLowercase(command[s]) = TextGet
    /\ Len(args[s]) = 1
    /\ args[s][1].t = "BulkString"
    /\ CanAcquire(lock)
    /\ lock' = s
    /\ pc' = [pc EXCEPT ![s] = "get_locked"]
    /\ UNCHANGED <<db, now, i, command, args, response, todo, iters,
                   committed, sent, replies,
                   buf, result, swept, encoded>>

\* "get", under the guard: look the key up, remove it when expired, render
\* the reply; the guard is dropped at the end of the block.
GetLookup(s) ==
    /\ pc[s] = "get_locked"
    /\ LET g == GetResult(db, args[s][1].s, now)
       IN  /\ db' = g.db
           /\ response' = [response EXCEPT ![s] = g.response]
           /\ committed' =
                IF g.db = db THEN committed
                ELSE [k \in (DOMAIN committed) \ {args[s][1].s} |->
                        committed[k]]
    /\ lock' = GuardDropped(lock, s)
    /\ pc' = [pc EXCEPT ![s] = "write"]
    /\ UNCHANGED <<now, i, command, args, todo, iters, sent, replies,
                   buf, result, swept, encoded>>

\* "get" with another argument count, or with an argument that is no bulk
\* string.
GetOther(s) ==
    /\ pc[s] = "exec"
    /\ ToLowercase(command[s]) = TextGet
    /\ ~(Len(args[s]) = 1 /\ args[s][1].t = "BulkString")
    /\ Reply(s, IF Len(args[s]) # 1 THEN BulkString(ErrGetArgs)
                ELSE BulkString(TextMinusOne))

\* Any other command name.
ExecInvalid(s) ==
    /\ pc[s] = "exec"
    /\ ToLowercase(command[s]) \notin {TextPing, TextEcho, TextSet, TextGet}
    /\ Reply(s, BulkString(ErrInvalidCommand(ToLowercase(command[s]))))

\* handler.write(response): serialised and written; the cycle is over and
\* its locals are gone.
WriteOk(s, env) ==
    /\ pc[s] = "write"
    /\ serialise(response[s]).out = "ok"
    /\ replies' = IF env.log THEN [replies EXCEPT ![s] = Append(replies[s], response[s])]
                  ELSE replies
    /\ pc' = [pc EXCEPT ![s] = "top"]
    /\ command' = [command EXCEPT ![s] = <<>>]
    /\ args' = [args EXCEPT ![s] = <<>>]
    /\ response' = [response EXCEPT ![s] = NoValue]
    /\ UNCHANGED <<db, lock, now, i, todo, iters, committed, sent,
                   buf, result, swept, encoded>>

\* handler.write(response) panics: serialise on an array, or
\* expect("Failed to write") on a failed stream write.  The task is over and
\* its locals are gone.
WritePanic(s) ==
    /\ pc[s] = "write"
    /\ pc' = [pc EXCEPT ![s] = "panicked"]
    /\ command' = [command EXCEPT ![s] = <<>>]
    /\ args' = [args EXCEPT ![s] = <<>>]
    /\ response' = [response EXCEPT ![s] = NoValue]
    /\ UNCHANGED <<db, lock, now, i, todo, iters, committed, sent, replies,
                   buf, result, swept, encoded>>

\* One step of session s in the environment env: the reads its client may
\* cause (inputs), the bound on iterations (iters) and whether the observers
\* sent and replies record (log).
Step(s, env) ==
    \/ Accept(s)
    \/ LoopTop(s, env)
    \/ SweepAcquire(s, env)
    \/ SweepRetain(s)
    \/ SweepRelease(s)
    \/ ReadClosed(s)
    \/ ReadError(s)
    \/ ReadData(s, env)
    \/ ExecPing(s)
    \/ ExecEcho(s)
    \/ SetAcquire(s)
    \/ SetSkip(s)
    \/ SetInvalid(s)
    \/ SetInsert(s)
    \/ SetStored(s)
    \/ GetAcquire(s)
    \/ GetLookup(s)
    \/ GetOther(s)
    \/ ExecInvalid(s)
    \/ WriteOk(s, env)
    \/ WritePanic(s)

---------------------------------------------------------------------------
(* The clients: the frames they send.                                      *)

\* A client's encoding of a bulk string (length in bytes) and of a request,
\* an array of bulk strings.
ClientBulk(s) ==
    <<"$">> \o NatToString(Len(AsBytes(s))) \o CRLF \o AsBytes(s) \o CRLF

RECURSIVE ClientBulks(_)
ClientBulks(words) ==
    IF words = <<>> THEN <<>>
    ELSE ClientBulk(Head(words)) \o ClientBulks(Tail(words))

Request(words) ==
    <<"*">> \o NatToString(Len(words)) \o CRLF \o ClientBulks(words)

WordPING == <<"P", "I", "N", "G">>
WordECHO == <<"E", "C", "H", "O">>
WordSET  == <<"S", "E", "T">>
WordGET  == <<"G", "E", "T">>
WordPX   == <<"P", "X">>
WordEX   == <<"E", "X">>
WordNOP  == <<"N", "O", "P">>
WordHi   == <<"h", "i">>
KeyA == <<"a">>
KeyB == <<"b">>

FramePing     == Request(<<WordPING>>)
FrameEchoHi   == Request(<<WordECHO, WordHi>>)
FrameEcho     == Request(<<WordECHO>>)
FrameNop      == Request(<<WordNOP>>)
FrameGetA     == Request(<<WordGET, KeyA>>)
FrameGetB     == Request(<<WordGET, KeyB>>)
FrameGet      == Request(<<WordGET>>)
FrameSetA(v)  == Request(<<WordSET, KeyA, v>>)
FrameSetB(v)  == Request(<<WordSET, KeyB, v>>)
FrameSetAPx(v, ms) == Request(<<WordSET, KeyA, v, WordPX, ms>>)
FrameSetAEx(v, secs) == Request(<<WordSET, KeyA, v, WordEX, secs>>)
FrameSet      == Request(<<WordSET, KeyA>>)
\* GET and SET with other argument counts.
FrameGetAB    == Request(<<WordGET, KeyA, KeyB>>)
FrameSetNone  == Request(<<WordSET>>)
FrameSet3     == Request(<<WordSET, KeyA, <<"x">>, WordPX>>)
FrameSet5     == Request(<<WordSET, KeyA, <<"x">>, WordPX, <<"1">>, <<"x">>>>)
\* ECHO with an (empty) array as its argument.
FrameEchoArray == <<"*", "2">> \o CRLF \o ClientBulk(WordECHO) \o <<"*", "0">> \o CRLF
\* SET a +x: the value is a simple string.
FrameSetASimple ==
    <<"*", "3">> \o CRLF \o ClientBulk(WordSET) \o ClientBulk(KeyA)
    \o <<"+", "x">> \o CRLF
\* SET a *0: the value is an (empty) array.
FrameSetAArray ==
    <<"*", "3">> \o CRLF \o ClientBulk(WordSET) \o ClientBulk(KeyA)
    \o <<"*", "0">> \o CRLF
\* SET a +x PX 1: four arguments, the value is a simple string.
FrameSetASimplePx ==
    <<"*", "5">> \o CRLF \o ClientBulk(WordSET) \o ClientBulk(KeyA)
    \o <<"+", "x">> \o CRLF \o ClientBulk(WordPX) \o ClientBulk(<<"1">>)
\* SET +a x: the key is a simple string.
FrameSetSimpleKey ==
    <<"*", "3">> \o CRLF \o ClientBulk(WordSET) \o <<"+", "a">> \o CRLF
    \o ClientBulk(<<"x">>)
\* Values that are not commands.
FrameSimple      == <<"+", "O", "K">> \o CRLF
FrameFirstSimple == <<"*", "1">> \o CRLF \o <<"+", "P", "I", "N", "G">> \o CRLF
FrameEmptyArray  == <<"*", "0">> \o CRLF
\* Frames the decoder does not accept.
FrameBadMarker   == <<"!", "x">> \o CRLF
FrameNoCrlf      == <<"$", "3">>
FrameBadLength   == <<"$", "x">> \o CRLF \o <<"a">> \o CRLF
FrameNegLength   == <<"$", "-", "1">> \o CRLF
FrameLongLength  == <<"$", "5">> \o CRLF \o <<"a", "b">> \o CRLF
FrameShortArray  == <<"*", "2">> \o CRLF \o ClientBulk(WordPING)

\* A number of seconds that fits a u64 while 1000 times it does not:
\* 18446744073709552 (1000 times it is 2^64 + 384).
SecondsBeyondU64 ==
    <<"1", "8", "4", "4", "6", "7", "4", "4", "0", "7", "3", "7", "0", "9",
      "5", "5", "2">>

\* The values the clients SET.
ValuesSet == {<<"7">>, <<"x">>, <<"0", "7">>, <<"+", "5">>, <<"-", "0">>,
              <<"-", "1">>, <<"1", "2">>, <<"a", "b">>, <<EAcute>>, <<>>}

\* Two sessions racing on the keys a and b: one frame per read.
MainInputs ==
    {<<f>> : f \in {FrameSetAPx(<<"7">>, <<"1">>), FrameSetA(<<"x">>),
                    FrameSetB(<<"x">>), FrameGetA, FrameSetASimple,
                    FramePing, FrameNop, FrameGet, FrameSet,
                    FrameSetSimpleKey}}

\* One session: every kind of frame, one per read, and reads that deliver a
\* second complete frame behind the first.
SessionInputs ==
    {<<f>> : f \in {FramePing, FrameEchoHi, FrameEcho, FrameNop, FrameGetA,
                    FrameGet, FrameSet, FrameEchoArray, FrameSetASimple,
                    FrameSetSimpleKey, FrameSetAPx(<<"7">>, <<"1">>),
                    FrameSetAEx(<<"7">>, <<"1">>),
                    FrameSetAEx(<<"7">>, SecondsBeyondU64),
                    FrameSimple, FrameFirstSimple, FrameEmptyArray,
                    FrameBadMarker, FrameNoCrlf, FrameBadLength,
                    FrameNegLength, FrameLongLength, FrameShortArray}}
    \cup {<<FrameSetA(v)>> : v \in ValuesSet}
    \cup {<<FramePing, FrameEchoHi>>, <<FrameEchoHi, FramePing>>}

\* One session, the interpreter on its own: the frames above and the
\* commands with every argument count and shape of value.
InterpInputs ==
    SessionInputs
    \cup {<<f>> : f \in {FrameGetAB, FrameSetNone, FrameSet3, FrameSet5,
                         FrameSetAArray, FrameSetASimplePx}}

---------------------------------------------------------------------------
(* The specifications.                                                     *)

MainEnv == [inputs |-> MainInputs, log |-> FALSE, iters |-> MaxIters]

SessionEnv ==
    [inputs |-> SessionInputs, log |-> TRUE, iters |-> MaxSessionIters]

\* Sessions racing on the shared map.
Next ==
    \/ Tick
    \/ \E s \in Sessions : Step(s, MainEnv)

Spec == Init /\ [][Next]_vars

\* One session, observed frame by frame.
InitSession == Init

NextSession ==
    \/ Tick
    \/ Step(1, SessionEnv)

SpecSession == InitSession /\ [][NextSession]_vars

\* One session, its commands one at a time, without the observers of the
\* frames sent and the replies written.
InterpEnv ==
    [inputs |-> InterpInputs, log |-> FALSE, iters |-> MaxSessionIters]

InitInterp == Init

NextInterp ==
    \/ Tick
    \/ Step(1, InterpEnv)

SpecInterp == InitInterp /\ [][NextInterp]_vars

\* The sweep on its own: two sessions that have each been through
\* CLEAR_TOKEN_ITERATIONS - 1 iterations, whose SETs left a Store of up to
\* two entries, with or without a ttl; each runs its next iteration, the one
\* that sweeps, while the clock advances, and then finds its client gone.
SweepTtls == {None, Some(U64Zero), Some(WideOfNat(1)), Some(WideOfNat(2))}

SweepEntries ==
    {DBData(d, 0, e) : d \in {DBValInt(7), DBValString(<<"x">>)},
                       e \in SweepTtls}

SweepStores ==
    UNION {[K -> SweepEntries] : K \in SUBSET {KeyA, KeyB}}

SweepEnv == [inputs |-> {}, log |-> TRUE, iters |-> MaxIters]

InitSweep ==
    /\ db \in SweepStores
    /\ lock = 0
    /\ now = 0
    /\ pc = [s \in Sessions |-> "top"]
    /\ i = [s \in Sessions |-> CLEAR_TOKEN_ITERATIONS - 1]
    /\ command = [s \in Sessions |-> <<>>]
    /\ args = [s \in Sessions |-> <<>>]
    /\ response = [s \in Sessions |-> NoValue]
    /\ todo = [s \in Sessions |-> {}]
    /\ iters = 0
    /\ committed = [k \in DOMAIN db |->
                       [value |-> Render(db[k].data), entry |-> db[k],
                        replaced |-> None]]
    /\ sent = [s \in Sessions |-> <<>>]
    /\ replies = [s \in Sessions |-> <<>>]
    /\ buf = <<>>
    /\ result = NotDecoded
    /\ swept = [s \in Sessions |-> {}]
    /\ encoded = NotEncoded

NextSweep ==
    \/ Tick
    \/ \E s \in Sessions :
        \/ LoopTop(s, SweepEnv)
        \/ SweepAcquire(s, SweepEnv)
        \/ SweepRetain(s)
        \/ SweepRelease(s)
        \/ ReadClosed(s)

SpecSweep == InitSweep /\ [][NextSweep]_vars

\* The decoder on its own: parse_message applied to a buffer.  The buffers
\* are the sequences of at most MaxPieces pieces; read() never hands over an
\* empty buffer.
MaxPieces == 5

Pieces == {<<"$">>, <<"*">>, <<"+">>, <<"!">>, <<"-">>, <<"1">>, <<"2">>,
           <<"a">>, <<CR>>, CRLF}

RECURSIVE PieceSeqs(_)
PieceSeqs(n) ==
    IF n = 0 THEN {<<>>}
    ELSE LET shorter == PieceSeqs(n - 1)
         IN  shorter \cup {p \o b : p \in Pieces, b \in shorter}

Buffers == PieceSeqs(MaxPieces) \ {<<>>}

InitCodec ==
    /\ Init
    /\ pc = [s \in Sessions |-> "idle"]

Decode ==
    /\ result = NotDecoded
    /\ \E b \in Buffers :
        /\ buf' = b
        /\ result' = parse_message(b)
    /\ UNCHANGED <<db, lock, now, pc, i, command, args, response, todo,
                   iters, committed, sent, replies, swept, encoded>>

NextCodec == Decode

SpecCodec == InitCodec /\ [][NextCodec]_vars

\* The codec on the frames of values: the server's encoding of a reply
\* decoded again, and the decoder on a client's well-formed array frames.
\* The arrays have up to MaxCount elements: bulk strings (empty, of several
\* characters, with a multi-byte character and a CRLF inside), arrays of
\* these, and arrays of all of those; and such an array nested once more.
MaxCount == 2

TextFoo == <<"f", "o", "o">>
TextTen == <<"0", "1", "2", "3", "4", "5", "6", "7", "8", "9">>

ReplyValues ==
    {SimpleString(t) : t \in {<<>>, TextOK, <<EAcute>>}}
    \cup {BulkString(t) : t \in {<<>>, WordHi, <<EAcute>>,
                                  <<"a", CR, LF, "b">>}}

ArraysOf(elements) ==
    {Array(a) : a \in UNION {[1..n -> elements] : n \in 0..MaxCount}}

BulkElements ==
    {BulkString(t) : t \in {<<>>, TextFoo, <<EAcute, CR, LF>>}}

ArrayValues ==
    LET flat == ArraysOf(BulkElements)
        nested == ArraysOf(BulkElements \cup flat)
    IN  nested
        \cup {Array(<<v>>) : v \in nested}
        \cup {Array(<<BulkString(TextTen)>>),
              Array([k \in 1..Len(TextTen) |-> BulkString(<<>>)])}

RECURSIVE ClientEncode(_)
RECURSIVE ClientEncodeAll(_)
\* A client's encoding of a bulk string or of an array of values.
ClientEncode(v) ==
    IF v.t = "BulkString" THEN ClientBulk(v.s)
    ELSE <<"*">> \o NatToString(Len(v.a)) \o CRLF \o ClientEncodeAll(v.a)

ClientEncodeAll(a) ==
    IF a = <<>> THEN <<>> ELSE ClientEncode(Head(a)) \o ClientEncodeAll(Tail(a))

\* serialise, then parse_message on the bytes.
RoundTrip ==
    /\ result = NotDecoded
    /\ \E v \in ReplyValues :
        /\ encoded' = v
        /\ buf' = serialise(v).bytes
        /\ result' = parse_message(serialise(v).bytes)
    /\ UNCHANGED <<db, lock, now, pc, i, command, args, response, todo,
                   iters, committed, sent, replies, swept>>

\* parse_message on a well-formed array frame.
DecodeFrame ==
    /\ result = NotDecoded
    /\ \E v \in ArrayValues :
        /\ encoded' = v
        /\ buf' = ClientEncode(v)
        /\ result' = parse_message(ClientEncode(v))
    /\ UNCHANGED <<db, lock, now, pc, i, command, args, response, todo,
                   iters, committed, sent, replies, swept>>

InitFrames == InitCodec

NextFrames ==
    \/ RoundTrip
    \/ DecodeFrame

SpecFrames == InitFrames /\ [][NextFrames]_vars

---------------------------------------------------------------------------
(* The claims.                                                             *)

Last(q) == q[Len(q)]

IsSet(s) == ToLowercase(command[s]) = TextSet
IsGet(s) == ToLowercase(command[s]) = TextGet

\* A reply shaped as an error: a bulk string whose text starts with the
\* error indicator.
ErrorShaped(v) ==
    /\ v.t = "BulkString"
    /\ Len(v.s) >= Len(ErrorIndicator)
    /\ SubSeq(v.s, 1, Len(ErrorIndicator)) = ErrorIndicator

\* The replies that answer a frame: all but the replies to a failed read.
Answers(s) ==
    SelectSeq(replies[s],
              LAMBDA v : v # BulkString(ErrReadToken(IoError)))

\* C1: within one connection every complete frame the client has sent is
\* processed in order: whenever the session is back at the top of its loop,
\* it has written one reply per frame sent, and the k-th reply answers the
\* k-th frame (PONG for a PING, the argument for an ECHO), also when one read
\* delivered several frames.
C1_EveryFrameAnswered ==
    \A s \in Sessions :
        pc[s] = "top" =>
            /\ Len(Answers(s)) = Len(sent[s])
            /\ \A k \in 1..Len(sent[s]) :
                /\ sent[s][k] = FramePing =>
                       Answers(s)[k] = SimpleString(TextPONG)
                /\ sent[s][k] = FrameEchoHi =>
                       Answers(s)[k] = BulkString(WordHi)

\* C2: a GET racing a SET on the same key replies as it would on the Store
\* before that SET or after it completed: at the step where the GET looks the
\* key up, the entry it finds is the whole entry the last completed operation
\* left, never one with fields of two entries, and its reply is the reply on
\* the map the completed operations left.
C2_GetSeesBeforeOrAfter ==
    [][\A s \in Sessions :
        (pc[s] = "get_locked" /\ pc'[s] = "write") =>
            LET key == args[s][1].s
            IN  /\ key \in DOMAIN db <=> key \in DOMAIN committed
                /\ key \in DOMAIN db => db[key] = committed[key].entry
                /\ response'[s] = GetResult(CommittedMap, key, now).response
      ]_vars

\* C2, witness: a SET has half written its entry (the entry in the map mixes
\* its data with the old ttl) while another session's GET on the same key is
\* waiting for access.
C2_Witness ==
    \E s1, s2 \in Sessions :
        /\ pc[s1] = "set_stored"
        /\ pc[s2] = "exec" /\ IsGet(s2) /\ Len(args[s2]) = 1
        /\ args[s2][1] = args[s1][1]
        /\ args[s1][1].s \in DOMAIN committed
        /\ db[args[s1][1].s].data # committed[args[s1][1].s].entry.data
        /\ db[args[s1][1].s].exp # SetExp(args[s1])

\* C3: no SET without expiry is lost, whatever the interleaving: whenever
\* Store access is free, every key whose last completed SET had no expiry is
\* in the Store with the value that SET wrote; so two sessions' SETs on
\* distinct keys leave both keys.
C3_NoWriteLost ==
    lock = 0 =>
        \A k \in DOMAIN committed :
            committed[k].entry.exp = None =>
                /\ k \in DOMAIN db
                /\ db[k].data =
                       determine_type(BulkString(committed[k].value)).val

\* C3, witness: both sessions have just completed a 2-argument SET, on
\* distinct keys, and the Store holds both.
C3_Witness ==
    \E s1, s2 \in Sessions :
        /\ pc[s1] = "write" /\ IsSet(s1) /\ Len(args[s1]) = 2
        /\ pc[s2] = "write" /\ IsSet(s2) /\ Len(args[s2]) = 2
        /\ SetMatches(args[s1]) /\ SetMatches(args[s2])
        /\ args[s1][1].s # args[s2][1].s
        /\ {args[s1][1].s, args[s2][1].s} \subseteq DOMAIN db

\* C4: a session that has ended (the loop broke, or the task panicked in the
\* decoder, in the set arm or in the write) holds no Store access, so access
\* is free or held by a session that is still running; and with access free
\* the Store is exactly what the completed operations left.
C4_EndedSessionHarmless ==
    \A s \in Sessions :
        Ended(s) =>
            /\ lock # s
            /\ lock = 0 \/ (lock \in Sessions /\ ~Ended(lock))
            /\ lock = 0 => db = CommittedMap

\* C4, witness: one session has panicked while the other, after it, holds
\* Store access in the middle of a SET on a Store that already has an entry.
C4_Witness ==
    \E s1, s2 \in Sessions :
        /\ pc[s1] = "panicked"
        /\ pc[s2] = "set_stored"
        /\ lock = s2
        /\ DOMAIN committed # {}

\* The frames that do not decode, or decode to a value that is no command.
NotCommands ==
    {FrameBadMarker, FrameNoCrlf, FrameBadLength, FrameNegLength,
     FrameLongLength, FrameShortArray, FrameSimple, FrameFirstSimple}

\* C5: when the frame a read delivered does not decode, or decodes to a value
\* that is no command, the session goes on (the read leads to the
\* interpreter, not to the end of the task), the Store is unchanged and the
\* reply is an error-shaped bulk string.
C5_BadFrameGetsErrorReply ==
    [][\A s \in Sessions :
        LET bad == sent'[s] # <<>> /\ Last(sent'[s]) \in NotCommands
        IN  /\ (pc[s] = "read" /\ sent'[s] # sent[s] /\ bad) =>
                   (pc'[s] = "exec" /\ db' = db)
            /\ (pc[s] = "exec" /\ pc'[s] # "exec" /\ bad) =>
                   (pc'[s] = "write" /\ ErrorShaped(response'[s]) /\ db' = db)
      ]_vars

\* The claim's malformed buffers, read off the bytes.
HeaderOf(b) == read_until_crlf(SliceFrom(b, 1))

BadMarker(b) == b[1] \notin {"+", "$", "*"}

NoLineBreak(b) == b[1] \in {"+", "$", "*"} /\ ~read_until_crlf(b).some

BadCount(b) ==
    /\ b[1] \in {"$", "*"}
    /\ HeaderOf(b).some
    /\ LET n == parse_int(HeaderOf(b).line) IN ~n.ok \/ n.n < 0

BulkPastEnd(b) ==
    /\ b[1] = "$"
    /\ HeaderOf(b).some
    /\ LET n == parse_int(HeaderOf(b).line)
       IN  n.ok /\ n.n >= 0 /\ HeaderOf(b).len + 1 + n.n > Len(b)

\* An element takes at least 3 bytes, so a count of n needs 3n bytes.
ArrayPastEnd(b) ==
    /\ b[1] = "*"
    /\ HeaderOf(b).some
    /\ LET n == parse_int(HeaderOf(b).line)
       IN  n.ok /\ n.n >= 0 /\ HeaderOf(b).len + 1 + 3 * n.n > Len(b)

Malformed(b) ==
    BadMarker(b) \/ NoLineBreak(b) \/ BadCount(b) \/ BulkPastEnd(b)
    \/ ArrayPastEnd(b)

\* C6: decode returns an error (no panic, no value) for every buffer with an
\* unknown type marker, with a length or count that is no non-negative
\* integer, with no line break where one is needed, or with a declared
\* length or count that goes past the bytes available.
C6_MalformedIsError ==
    (result # NotDecoded /\ Malformed(buf)) => result.out = "err"

\* C7: a read that fails is handled like a read of zero bytes: a read that
\* delivers no frame ends the session, with no command interpreted and no
\* reply.
C7_FailedReadEndsSession ==
    [][\A s \in Sessions :
        (pc[s] = "read" /\ pc'[s] # "read" /\ sent'[s] = sent[s]) =>
            pc'[s] = "closed"
      ]_vars

\* C8: the reply value handed to the encoder is a simple string or a bulk
\* string, never an array.
C8_ReplyIsString ==
    \A s \in Sessions :
        pc[s] = "write" => response[s].t \in {"SimpleString", "BulkString"}

\* C9: after SET k v without expiry, a GET k with no SET on k in between
\* replies with the bulk string v: at the step where a GET looks up a key
\* whose last completed SET had no expiry, its reply is that SET's value
\* text.
C9_GetRepliesWhatWasSet ==
    [][\A s \in Sessions :
        (pc[s] = "get_locked" /\ pc'[s] = "write"
         /\ args[s][1].s \in DOMAIN committed
         /\ committed[args[s][1].s].entry.exp = None) =>
            response'[s] = BulkString(committed[args[s][1].s].value)
      ]_vars

\* C10: a SET k v PX t that completes stores the ttl t with the instant of
\* the SET; a GET that looks k up when at least t milliseconds have passed
\* since then, with no SET on k in between, replies "-1" and leaves k out of
\* the Store; and no GET replies with anything but "-1" on an entry whose
\* deadline has passed.
C10_ExpiredReadsAsAbsent ==
    [][\A s \in Sessions :
        /\ (pc[s] = "set_stored" /\ pc'[s] = "write" /\ Len(args[s]) = 4
            /\ ToLowercase(args[s][3].s) = TextPx /\ ParseU64(args[s][4].s).ok)
           => LET e == db'[args[s][1].s]
              IN  /\ e.exp = Some(ParseU64(args[s][4].s).n)
                  /\ e.created_at <= now
                  /\ committed'[args[s][1].s].entry = e
        /\ (pc[s] = "get_locked" /\ pc'[s] = "write")
           => LET key == args[s][1].s
              IN  /\ (/\ key \in DOMAIN committed
                      /\ committed[key].entry.exp.some
                      /\ ~WideLess(WideOfNat(now - committed[key].entry.created_at),
                                   committed[key].entry.exp.ms))
                     => (/\ response'[s] = BulkString(TextMinusOne)
                         /\ key \notin DOMAIN db')
                  /\ (/\ key \in DOMAIN db
                      /\ db[key].exp.some
                      /\ ~WideLess(WideOfNat(now - db[key].created_at),
                                   db[key].exp.ms))
                     => response'[s] = BulkString(TextMinusOne)
      ]_vars

\* C10, witness: one session has completed SET a 7 PX 1 and the other, which
\* never swept, has then read the key after its deadline: its GET replied
\* "-1" and the key is gone.
C10_Witness ==
    \E s1, s2 \in Sessions :
        /\ pc[s1] = "write" /\ IsSet(s1) /\ Len(args[s1]) = 4
        /\ response[s1] = SimpleString(TextOK)
        /\ i[s1] < CLEAR_TOKEN_ITERATIONS - 2
        /\ i[s2] < CLEAR_TOKEN_ITERATIONS - 2
        /\ pc[s2] = "write" /\ IsGet(s2)
        /\ args[s2] = <<args[s1][1]>>
        /\ response[s2] = BulkString(TextMinusOne)
        /\ args[s1][1].s \notin DOMAIN db
        /\ now >= 1

\* C11: an entry written by a 2-argument SET never expires.  The SET stores
\* the new data with its own instant and no ttl, whatever the slot held
\* before; and as long as that SET is the last completed operation on the
\* key, every step (a sweep's visit, a GET's lookup, the clock) leaves the
\* key in the Store, a sweep or a GET leaves the entry as the SET wrote it,
\* and a GET on the key replies with the stored value rendered.
C11_NoTtlNeverExpires ==
    [][/\ \A s \in Sessions :
            (pc[s] = "set_stored" /\ pc'[s] = "write" /\ Len(args[s]) = 2) =>
                LET key == args[s][1].s
                IN  /\ db'[key] = DBData(determine_type(args[s][2]).val,
                                         db[key].created_at, None)
                    /\ db[key].created_at <= now
                    /\ committed'[key].entry = db'[key]
       /\ \A k \in DOMAIN committed :
            committed[k].entry.exp = None =>
                /\ k \in DOMAIN db'
                /\ (\E s \in Sessions : pc[s] \in {"sweep", "get_locked"}) =>
                       db'[k] = committed[k].entry
                /\ \A s \in Sessions :
                       (pc[s] = "get_locked" /\ pc'[s] = "write"
                        /\ args[s][1].s = k) =>
                           response'[s] =
                               BulkString(Render(committed[k].entry.data))
      ]_vars

\* C11, witness: a 2-argument SET has replaced an entry that carried a ttl,
\* the time of that ttl has passed since, and a sweep has visited every key:
\* the entry is still in the Store.
C11_Witness ==
    \E s \in Sessions :
        /\ pc[s] = "sweep" /\ todo[s] = {}
        /\ KeyA \in DOMAIN db /\ KeyA \in DOMAIN committed
        /\ db[KeyA].exp = None
        /\ committed[KeyA].replaced.some
        /\ committed[KeyA].replaced.ms # U64Zero
        /\ ~WideLess(WideOfNat(now - db[KeyA].created_at),
                     committed[KeyA].replaced.ms)

\* C12: SET k v EX n stores a ttl of exactly n * 1000 milliseconds for every
\* n that parses as a u64: the command reaches the insert (its task does not
\* end in the interpreter) and the entry it completes carries Some(n * 1000).
C12_ExStoresSecondsTimes1000 ==
    [][\A s \in Sessions :
        (/\ IsSet(s) /\ Len(args[s]) = 4 /\ SetMatches(args[s])
         /\ args[s][2].t = "BulkString"
         /\ ToLowercase(args[s][3].s) = TextEx
         /\ ParseU64(args[s][4].s).ok) =>
            /\ pc[s] = "exec" => pc'[s] \in {"exec", "set_insert"}
            /\ (pc[s] = "set_stored" /\ pc'[s] = "write") =>
                   db'[args[s][1].s].exp =
                       Some(WideTimes1000(ParseU64(args[s][4].s).n))
      ]_vars

\* The command of session s has an argument count its arm does not take, or
\* a name no arm takes.
BadArityOrName(s) ==
    \/ IsGet(s) /\ Len(args[s]) # 1
    \/ IsSet(s) /\ Len(args[s]) \notin {2, 4}
    \/ ToLowercase(command[s]) \notin {TextPing, TextEcho, TextSet, TextGet}

\* C13: GET with an argument count other than 1, SET with an argument count
\* other than 2 or 4, and a command of any other name: the interpreter's step
\* leads to the write of an error-shaped bulk string and leaves the Store, and
\* who holds access to it, as they were.
C13_BadCommandIsErrorNoMutation ==
    [][\A s \in Sessions :
        (pc[s] = "exec" /\ pc'[s] # "exec" /\ BadArityOrName(s)) =>
            /\ pc'[s] = "write"
            /\ ErrorShaped(response'[s])
            /\ db' = db
            /\ lock' = lock
      ]_vars

\* C13, witness: the Store holds an entry and the session has answered
\* GET a b (two arguments) with an error-shaped reply.
C13_Witness ==
    \E s \in Sessions :
        /\ pc[s] = "write" /\ IsGet(s) /\ Len(args[s]) = 2
        /\ ErrorShaped(response[s])
        /\ KeyA \in DOMAIN db

\* C14: a SET with 2 or 4 arguments, a bulk-string key and a value that is
\* no bulk string fails with an error reply: when the session leaves the set
\* arm it is to write an error-shaped reply (not "OK", and the task has not
\* ended), and the Store is unchanged.
C14_NonBulkValueIsErrorReply ==
    [][\A s \in Sessions :
        (/\ IsSet(s) /\ Len(args[s]) \in {2, 4}
         /\ args[s][1].t = "BulkString" /\ args[s][2].t # "BulkString"
         /\ pc[s] \in {"exec", "set_insert", "set_stored"}
         /\ pc'[s] \notin {"exec", "set_insert", "set_stored"}) =>
            /\ pc'[s] = "write"
            /\ ErrorShaped(response'[s])
            /\ db' = db
      ]_vars

\* The deadline of an entry has passed at instant t: it has a ttl, and at
\* least that many milliseconds separate created_at from t.
DeadlinePassed(val, t) ==
    val.exp.some /\ ~WideLess(WideOfNat(t - val.created_at), val.exp.ms)

\* Session s completes a sweep pass in this step.
PassEnds(s) == pc[s] = "sweep" /\ pc'[s] = "read"

\* C15: the sweep is idempotent.  When a pass ends, every entry it left is an
\* entry the Store held before, unchanged; every entry whose deadline has not
\* passed by then is left; so a pass on a Store with no expired entry leaves
\* it as it was; and a pass that follows another session's pass, with the
\* clock still at the instant that pass began, leaves the Store the first
\* pass left.
C15_SweepIdempotent ==
    [][\A s \in Sessions :
        PassEnds(s) =>
            /\ DOMAIN db \subseteq DOMAIN CommittedMap
            /\ \A k \in DOMAIN db : db[k] = CommittedMap[k]
            /\ \A k \in DOMAIN CommittedMap :
                   ~DeadlinePassed(CommittedMap[k], now) => k \in DOMAIN db
            /\ (\A k \in DOMAIN CommittedMap :
                    ~DeadlinePassed(CommittedMap[k], now)) =>
                   db = CommittedMap
            /\ (\E s2 \in Sessions \ {s} :
                    /\ pc[s2] \in {"read", "closed"}
                    /\ \E p \in swept[s2] : p.began = now) =>
                   db = CommittedMap
      ]_vars

\* C15, witness: two passes in a row at one instant: the first removed an
\* expired entry and left another, and the second has just ended on the
\* Store the first left.
C15_Witness ==
    \E s1, s2 \in Sessions :
        /\ s1 # s2
        /\ pc[s1] \in {"read", "closed"} /\ pc[s2] = "read"
        /\ \E p1 \in swept[s1], p2 \in swept[s2] :
            /\ p1.began = now /\ p2.began = now
            /\ p2.keys # p1.keys
            /\ p2.keys = DOMAIN db
            /\ DOMAIN db # {}

\* C16: encoding a simple string or a bulk string and decoding the bytes
\* yields the value encoded, and the decoder consumes exactly those bytes.
C16_RoundTrip ==
    (result # NotDecoded /\ encoded.t \in {"SimpleString", "BulkString"}) =>
        result = Ok(encoded, Len(buf))

\* C17: decoding a well-formed array frame of bulk strings and nested arrays
\* of bulk strings yields the array of its element values, in order, and a
\* consumed length equal to the length of the frame.
C17_ArrayDecodesWhole ==
    (result # NotDecoded /\ encoded.t = "Array") =>
        result = Ok(encoded, Len(buf))

\* C17, witness: a frame of two elements has been decoded, one of them an
\* array that holds a bulk string with a line break in its payload.
C17_Witness ==
    /\ result # NotDecoded
    /\ encoded.t = "Array" /\ Len(encoded.a) = 2
    /\ result = Ok(encoded, Len(buf))
    /\ \E k \in 1..2 :
        /\ encoded.a[k].t = "Array"
        /\ Len(encoded.a[k].a) = 2
        /\ encoded.a[k].a[2] = BulkString(<<EAcute, CR, LF>>)

\* C18: one pass judges every entry against one instant: when a pass ends
\* there is an instant T of the pass such that the entries it removed are
\* exactly those whose deadline had passed at T.
C18_OneSnapshotPerPass ==
    [][\A s \in Sessions :
        PassEnds(s) =>
            \E p \in swept[s] :
                \E T \in p.began..now :
                    \A k \in DOMAIN CommittedMap :
                        k \notin DOMAIN db <=>
                            DeadlinePassed(CommittedMap[k], T)
      ]_vars

\* Session s holds Store access only in these positions: inside the sweep's
\* block, inside the set arm's insert, inside the get arm's lookup.
HoldingPositions == {"sweep", "set_insert", "set_stored", "get_locked"}

\* Session s is waiting for Store access: for its sweep, its SET or its GET.
WaitingForAccess(s) ==
    \/ pc[s] = "sweep_wait"
    \/ /\ pc[s] = "exec"
       /\ \/ IsSet(s) /\ SetMatches(args[s])
          \/ IsGet(s) /\ Len(args[s]) = 1 /\ args[s][1].t = "BulkString"

\* C19: a session waiting for bytes from its client or writing its reply
\* holds no Store access; access is held only inside one sweep or one
\* command; so while one session is blocked on its client, another session
\* that waits for access finds it free, or held by a third session that is
\* itself inside a sweep or a command.
C19_BlockedOnClientHoldsNoAccess ==
    /\ \A s \in Sessions :
        /\ pc[s] \in {"read", "write"} => lock # s
        /\ lock = s => pc[s] \in HoldingPositions
    /\ \A s1, s2 \in Sessions :
        (s1 # s2 /\ pc[s1] \in {"read", "write"} /\ WaitingForAccess(s2)) =>
            \/ lock = 0
            \/ lock \in Sessions \ {s1, s2} /\ pc[lock] \in HoldingPositions

\* C19, witness: one session has swept and is waiting for bytes from its
\* client while the other is about to take access for a command on a Store
\* that holds an entry: access is free.
C19_Witness ==
    \E s1, s2 \in Sessions :
        /\ s1 # s2
        /\ pc[s1] = "read" /\ i[s1] = 0
        /\ pc[s2] = "exec" /\ WaitingForAccess(s2)
        /\ lock = 0
        /\ DOMAIN db # {}

\* C20: a session sweeps exactly on the iterations where its counter reaches
\* CLEAR_TOKEN_ITERATIONS.  The top of the loop adds one to the session's own
\* counter and goes to the sweep when that makes CLEAR_TOKEN_ITERATIONS, to
\* the read otherwise; the sweep is entered only from there, runs holding
\* access, and ends with the counter at 0, access given up and the read next;
\* and a counter changes only at its session's loop top, at the end of its
\* sweep, or when its connection is accepted.
C20_SweepEveryThousandth ==
    [][\A s \in Sessions :
        /\ (pc[s] = "top" /\ pc'[s] # "top") =>
               /\ i'[s] = i[s] + 1
               /\ pc'[s] \in {"sweep_wait", "read"}
               /\ pc'[s] = "sweep_wait" <=> i'[s] = CLEAR_TOKEN_ITERATIONS
        /\ (pc'[s] = "sweep_wait" /\ pc[s] # "sweep_wait") => pc[s] = "top"
        /\ (pc'[s] = "sweep" /\ pc[s] # "sweep") => pc[s] = "sweep_wait"
        /\ pc'[s] = "sweep" =>
               lock' = s /\ i'[s] = CLEAR_TOKEN_ITERATIONS
        /\ (pc[s] # "sweep" /\ pc'[s] # "sweep") =>
               \A k \in DOMAIN db :
                   (k \notin DOMAIN db' /\ lock = s) => pc[s] = "get_locked"
        /\ PassEnds(s) => i'[s] = 0 /\ lock' # s
        /\ (pc'[s] = "read" /\ pc[s] # "read") => pc[s] \in {"top", "sweep"}
        /\ i'[s] # i[s] =>
               \/ pc[s] = "top" /\ pc'[s] # "top"
               \/ PassEnds(s)
               \/ pc[s] = "idle" /\ pc'[s] = "top"
      ]_vars

\* C20, witness: one session is sweeping, its counter at
\* CLEAR_TOKEN_ITERATIONS, while the other, whose first iteration ends in an
\* error reply, has its own counter at 1.
C20_Witness ==
    \E s1, s2 \in Sessions :
        /\ pc[s1] = "sweep" /\ i[s1] = CLEAR_TOKEN_ITERATIONS /\ lock = s1
        /\ pc[s2] = "write" /\ ErrorShaped(response[s2]) /\ i[s2] = 1

====
